---- MODULE Spec2Model ----
(***************************************************************************)
(* The registration adapter of SmartBearMcpServer (src/common/server.ts):  *)
(* the guarded tool wrapper and the resource wrapper that addClient hands  *)
(* to the host.                                                            *)
(*                                                                         *)
(* Text is a sequence of string fragments; its meaning is the fragments    *)
(* concatenated, so a template literal is \o of its parts.  Titles and     *)
(* prefixes are sequences of one-character strings, because the name       *)
(* normalisation works on characters.  A JavaScript object is a record     *)
(* that has exactly the keys that are set: `"content" \in DOMAIN r` is     *)
(* `r.content !== undefined`.                                              *)
(***************************************************************************)
EXTENDS Integers, Sequences, FiniteSets, TLC

VARIABLES
    configured,   \* the client's state, as client.isConfigured() reads it
    telemetry,    \* the calls Bugsnag.notify has received, in order
    calls,        \* the tool-wrapper invocations: position and locals of each
    rcalls,       \* the resource-wrapper invocations
    reg           \* a registration, or a direct call of a schema helper:
                  \* its input and, once it has run, what it produced

vars == <<configured, telemetry, calls, rcalls, reg>>

----------------------------------------------------------------------------
(* Bounds *)

NumCalls == 2            \* concurrent invocations of tool wrappers
NumResourceCalls == 2    \* concurrent invocations of resource wrappers

Calls == 1..NumCalls
ResourceCalls == 1..NumResourceCalls

\* JavaScript runs a handler without interruption from one await to the next:
\* an action is the code an invocation runs between two awaits.

----------------------------------------------------------------------------
(* The client (types.ts Client): name and toolPrefix *)

ClientName == "Test Product"
ToolPrefix == <<"t", "p">>

----------------------------------------------------------------------------
(* Strings *)

UpperCase == <<"A","B","C","D","E","F","G","H","I","J","K","L","M",
               "N","O","P","Q","R","S","T","U","V","W","X","Y","Z">>
LowerCase == <<"a","b","c","d","e","f","g","h","i","j","k","l","m",
               "n","o","p","q","r","s","t","u","v","w","x","y","z">>

\* the characters /\s/ matches, of those the model uses
IsWhitespace(c) == c \in {" ", "\t", "\n"}

\* String.prototype.toLowerCase, one character
LowerChar(c) ==
    IF \E k \in 1..Len(UpperCase) : UpperCase[k] = c
    THEN LowerCase[CHOOSE k \in 1..Len(UpperCase) : UpperCase[k] = c]
    ELSE c

toLowerCase(s) == [k \in 1..Len(s) |-> LowerChar(s[k])]

\* mutant: /\s/g, which replaces every whitespace character by its own "_"
RECURSIVE ReplaceEachWhitespace(_)
ReplaceEachWhitespace(s) ==
    IF s = <<>> THEN <<>>
    ELSE <<IF IsWhitespace(Head(s)) THEN "_" ELSE Head(s)>>
         \o ReplaceEachWhitespace(Tail(s))

\* s.replace(/\s+/g, "_"): every maximal run of whitespace becomes one "_"
RECURSIVE ReplaceWhitespace(_)
ReplaceWhitespace(s) ==
    IF s = <<>> THEN <<>>
    ELSE IF IsWhitespace(Head(s))
         THEN IF Len(s) > 1 /\ IsWhitespace(s[2])
              THEN ReplaceWhitespace(Tail(s))
              ELSE <<"_">> \o ReplaceWhitespace(Tail(s))
         ELSE <<Head(s)>> \o ReplaceWhitespace(Tail(s))

MaxToolNameLength == 64

\* s.slice(0, n)
Slice(s, n) == SubSeq(s, 1, IF Len(s) < n THEN Len(s) ELSE n)

\* line 61, for a client with the given toolPrefix
rawToolNameOf(toolPrefix, title) ==
    toolPrefix \o <<"_">> \o toLowerCase(ReplaceWhitespace(title))

\* lines 62-63
toolNameOf(toolPrefix, title) ==
    IF Len(rawToolNameOf(toolPrefix, title)) > MaxToolNameLength
    THEN Slice(rawToolNameOf(toolPrefix, title), MaxToolNameLength)
    ELSE rawToolNameOf(toolPrefix, title)

rawToolName(params) == rawToolNameOf(ToolPrefix, params.title)

toolName(params) == toolNameOf(ToolPrefix, params.title)

toolTitle(params) == <<ClientName, ": ">> \o params.title

----------------------------------------------------------------------------
(* Values *)

Has(obj, key) == key \in DOMAIN obj

\* structured values: an object as a sequence of <<key, string value>>
StructuredValues == { << <<"result", "success">> >> }

\* JSON.stringify of such an object
RECURSIVE StringifyMembers(_)
StringifyMembers(obj) ==
    IF obj = <<>> THEN <<>>
    ELSE <<"\"", obj[1][1], "\":\"", obj[1][2], "\"">>
         \o (IF Len(obj) > 1 THEN <<",">> ELSE <<>>)
         \o StringifyMembers(Tail(obj))

JSONstringify(obj) == <<"{">> \o StringifyMembers(obj) \o <<"}">>

TextItem(text) == [type |-> "text", text |-> text]

\* an object that sets `key` to opt[1], or nothing when opt is <<>>
EmptyObject == [k \in {} |-> TRUE]
Field(key, opt) == IF opt = <<>> THEN EmptyObject ELSE key :> opt[1]

\* CallToolResult values a callback can resolve to
ContentValues == { <<>>, <<TextItem(<<"from callback">>)>> }

CallToolResults ==
    { Field("isError", ie) @@ Field("content", c) @@ Field("structuredContent", sc) :
        ie \in {<<>>} \cup { <<b>> : b \in BOOLEAN },
        c  \in {<<>>} \cup { <<v>> : v \in ContentValues },
        sc \in {<<>>} \cup { <<v>> : v \in StructuredValues } }

\* thrown values: the class decides `instanceof ToolError`
ToolError(message) == [class |-> "ToolError", message |-> message]
Error(message)     == [class |-> "Error", message |-> message]
AbortError         == [class |-> "AbortError",
                       message |-> <<"This operation was aborted">>]

CallbackErrors == { ToolError(<<"X">>), Error(<<"Y">>), AbortError }

\* how an awaited callback settles: it resolves to a result, resolves to
\* nothing (undefined), or rejects
Resolved(value) == [kind |-> "resolved", value |-> value]
ResolvedUndefined == [kind |-> "undefined"]
Rejected(error) == [kind |-> "rejected", error |-> error]

CallbackOutcomes ==
    { Resolved(r) : r \in CallToolResults }
    \cup { ResolvedUndefined }
    \cup { Rejected(e) : e \in CallbackErrors }

\* ToolParams as the client registers them: title, and outputSchema when set
ObjectSchema == [kind |-> "object", keys |-> <<"values">>]

ToolSpecs ==
    { [title |-> <<"T","e","s","t"," ","T","o","o","l">>],
      [title |-> <<"G","e","t"," ","\t","V","a","l","u","e","s">>,
       outputSchema |-> ObjectSchema] }

----------------------------------------------------------------------------
(* The tool wrapper, server.ts 74-107 *)

\* what a call of a function that may throw did
NoThrow == [threw |-> FALSE]
Throws(error) == [threw |-> TRUE, error |-> error]

NotConfiguredMessage ==
    <<"The tool is not configured - configuration options for ",
      ClientName, " are missing or invalid.">>

\* mutant: the configuration failure thrown as a plain Error
NotConfiguredPlainError == Error(NotConfiguredMessage)

\* lines 77-79
NotConfiguredError == ToolError(NotConfiguredMessage)

MissingStructuredContentMessage(params) ==
    <<"The result of the tool '">> \o params.title
        \o <<"' must include 'structuredContent'">>

\* mutant: the missing structuredContent is raised as a ToolError
validateThrowsToolError(result, params) ==
    IF Has(result, "isError") /\ result.isError
    THEN NoThrow
    ELSE IF Has(params, "outputSchema") /\ ~Has(result, "structuredContent")
         THEN Throws(ToolError(MissingStructuredContentMessage(params)))
         ELSE NoThrow

\* mutant: a result that sets isError at all, even to false, is not validated
validateSkipsWhenIsErrorSet(result, params) ==
    IF Has(result, "isError")
    THEN NoThrow
    ELSE IF Has(params, "outputSchema") /\ ~Has(result, "structuredContent")
         THEN Throws(Error(MissingStructuredContentMessage(params)))
         ELSE NoThrow

\* mutant: error results are validated like the others
validateIgnoresIsError(result, params) ==
    IF Has(params, "outputSchema") /\ ~Has(result, "structuredContent")
    THEN Throws(Error(MissingStructuredContentMessage(params)))
    ELSE NoThrow

validateCallbackResult(result, params) ==
    IF Has(result, "isError") /\ result.isError
    THEN NoThrow
    ELSE IF Has(params, "outputSchema") /\ ~Has(result, "structuredContent")
         THEN Throws(Error(MissingStructuredContentMessage(params)))
         ELSE NoThrow

\* mutant: content is replaced whenever structuredContent is present
addStructuredContentAlways(result) ==
    IF Has(result, "structuredContent")
    THEN [k \in DOMAIN result \cup {"content"} |->
            IF k = "content"
            THEN <<TextItem(JSONstringify(result.structuredContent))>>
            ELSE result[k]]
    ELSE result

\* the result object after the call (the code assigns result.content in place)
addStructuredContentAsText(result) ==
    IF Has(result, "structuredContent")
       /\ (~Has(result, "content") \/ Len(result.content) = 0)
    THEN [k \in DOMAIN result \cup {"content"} |->
            IF k = "content"
            THEN <<TextItem(JSONstringify(result.structuredContent))>>
            ELSE result[k]]
    ELSE result

\* mutant: every value that is not a plain Error counts as a domain error
IsNotPlainError(e) == e.class # "Error"

IsToolError(e) == e.class = "ToolError"

\* mutant: the message names the raw title instead of the tool title
ErrorResultRawTitle(params, e) ==
    [isError |-> TRUE,
     content |-> <<TextItem(<<"Error executing ">> \o params.title
                              \o <<": ">> \o e.message)>>]

ErrorResult(params, e) ==
    [isError |-> TRUE,
     content |-> <<TextItem(<<"Error executing ">> \o toolTitle(params)
                              \o <<": ">> \o e.message)>>]

\* Bugsnag.notify(e, event => {addMetadata("app", {tool}); unhandled = true});
\* `call` names the invocation that notified
ToolNotification(i, params, e) ==
    [call |-> <<"tool", i>>, error |-> e,
     metadata |-> [tool |-> toolName(params)], unhandled |-> TRUE]

\* how an invocation ended for the host
Returned(value) == [kind |-> "returned", value |-> value]
ReturnedUndefined == [kind |-> "returnedUndefined"]
Thrown(error) == [kind |-> "thrown", error |-> error]

\* mutant: every caught value is absorbed into an isError result
CatchBlockAbsorbsAll(i, params, e) ==
    [outcome |-> Returned(ErrorResult(params, e)), notified |-> <<>>,
     steps |-> <<"catch">>]

\* mutant: the wrapper reports an unexpected error only while the sink is
\* empty, so that one invocation's report silences the next one's
CatchBlockReportsOnce(i, params, e) ==
    IF IsToolError(e)
    THEN [outcome |-> Returned(ErrorResult(params, e)), notified |-> <<>>,
          steps |-> <<"catch">>]
    ELSE [outcome |-> Thrown(e),
          notified |-> IF telemetry = <<>>
                       THEN <<ToolNotification(i, params, e)>>
                       ELSE <<>>,
          steps |-> <<"catch", "notify">>]

\* the catch block, lines 87-106, for the caught value e: the way the
\* invocation ends and the notifications it sends
CatchBlock(i, params, e) ==
    IF IsToolError(e)
    THEN [outcome |-> Returned(ErrorResult(params, e)), notified |-> <<>>,
          steps |-> <<"catch">>]
    ELSE [outcome |-> Thrown(e), notified |-> <<ToolNotification(i, params, e)>>,
          steps |-> <<"catch", "notify">>]

\* lines 82-86, for a callback that resolved to `value`
AfterResolve(i, params, value) ==
    LET v == validateCallbackResult(value, params)
    IN IF v.threw
       THEN LET c == CatchBlock(i, params, v.error)
            IN [c EXCEPT !.steps = <<"validateCallbackResult">> \o @]
       ELSE [outcome |-> Returned(addStructuredContentAsText(value)),
             notified |-> <<>>,
             steps |-> <<"validateCallbackResult", "addStructuredContentAsText">>]

\* the wrapper from the end of `await cb(args, extra)` (line 81) to its end
AfterAwait(i, params, settled) ==
    CASE settled.kind = "rejected" -> CatchBlock(i, params, settled.error)
      [] settled.kind = "undefined" ->
           [outcome |-> ReturnedUndefined, notified |-> <<>>, steps |-> <<>>]
      [] settled.kind = "resolved" -> AfterResolve(i, params, settled.value)

\* a wrapper that calls the callback whatever isConfigured() returned
InvokeIgnoresConfiguration(i) ==
    /\ calls[i].pc = "Idle"
    /\ \E params \in ToolSpecs :
         calls' = [calls EXCEPT ![i] =
             [pc |-> "Awaiting", params |-> params, isConfigured |-> configured,
              cbCalls |-> 1, steps |-> <<"isConfigured", "cb">>]]
    /\ UNCHANGED <<configured, telemetry, rcalls, reg>>

\* the host calls the wrapper registered for a tool (line 74); the wrapper
\* runs lines 75-81 up to the await, or to its end when the client is not
\* configured (lines 76-80 throw into the catch block)
Invoke(i) ==
    /\ calls[i].pc = "Idle"
    /\ \E params \in ToolSpecs :
         IF ~configured
         THEN LET c == CatchBlock(i, params, NotConfiguredError)
              IN /\ calls' = [calls EXCEPT ![i] =
                      [pc |-> "Done", params |-> params, isConfigured |-> FALSE,
                       cbCalls |-> 0, steps |-> <<"isConfigured">> \o c.steps,
                       outcome |-> c.outcome]]
                 /\ telemetry' = telemetry \o c.notified
         ELSE /\ calls' = [calls EXCEPT ![i] =
                   [pc |-> "Awaiting", params |-> params, isConfigured |-> TRUE,
                    cbCalls |-> 1, steps |-> <<"isConfigured", "cb">>]]
              /\ UNCHANGED telemetry
    /\ UNCHANGED <<configured, rcalls, reg>>

\* the awaited callback settles and the wrapper runs to its end
Settle(i) ==
    /\ calls[i].pc = "Awaiting"
    /\ \E settled \in CallbackOutcomes :
         LET call == calls[i]
             a == AfterAwait(i, call.params, settled)
         IN /\ calls' = [calls EXCEPT ![i] =
                 [pc |-> "Done", params |-> call.params,
                  isConfigured |-> call.isConfigured, cbCalls |-> call.cbCalls,
                  cb |-> settled, steps |-> call.steps \o a.steps,
                  outcome |-> a.outcome]]
            /\ telemetry' = telemetry \o a.notified
    /\ UNCHANGED <<configured, rcalls, reg>>

\* the client gains or loses its configuration while invocations are pending
Configure ==
    /\ configured' = ~configured
    /\ UNCHANGED <<telemetry, calls, rcalls, reg>>

----------------------------------------------------------------------------
(* The resource wrapper, server.ts 115-137 *)

\* what clients pass to the register function: name and path template
Resources ==
    { [name |-> "test_resource", path |-> "{identifier}"],
      [name |-> "other_resource", path |-> "{id}"] }

\* line 117: the template the resource is registered under
TemplateUrl(resource) ==
    ToolPrefix \o <<"://", resource.name, "/", resource.path>>

\* the URLs the host calls the wrapper with: the template with its variable set
Identifiers == { "1", "2" }
RequestUrl(resource, id) == ToolPrefix \o <<"://", resource.name, "/", id>>

ResourceResults == { [contents |-> <<>>], [contents |-> <<"text">>] }

ResourceOutcomes ==
    { Resolved(r) : r \in ResourceResults }
    \cup { ResolvedUndefined }
    \cup { Rejected(e) : e \in CallbackErrors }

\* lines 128-131; `url` is the wrapper's own parameter (line 124), which hides
\* the template of line 117
ResourceNotification(j, resource, url, e) ==
    [call |-> <<"resource", j>>, error |-> e,
     metadata |-> [resource |-> resource.name, url |-> url],
     unhandled |-> TRUE]

\* mutant: the resource path absorbs ToolErrors as the tool path does
ResourceCatchBlockAbsorbs(j, resource, url, e) ==
    IF IsToolError(e)
    THEN [outcome |-> Returned([isError |-> TRUE,
                                content |-> <<TextItem(e.message)>>]),
          notified |-> <<>>]
    ELSE [outcome |-> Thrown(e),
          notified |-> <<ResourceNotification(j, resource, url, e)>>]

\* lines 127-133
ResourceCatchBlock(j, resource, url, e) ==
    [outcome |-> Thrown(e),
     notified |-> <<ResourceNotification(j, resource, url, e)>>]

\* lines 125-133 from the end of the await
ResourceAfterAwait(j, resource, url, settled) ==
    CASE settled.kind = "rejected" ->
           ResourceCatchBlock(j, resource, url, settled.error)
      [] settled.kind = "undefined" ->
           [outcome |-> ReturnedUndefined, notified |-> <<>>]
      [] settled.kind = "resolved" ->
           [outcome |-> Returned(settled.value), notified |-> <<>>]

\* the host reads a registered resource: line 124, up to the await of line 126
InvokeResource(j) ==
    /\ rcalls[j].pc = "Idle"
    /\ \E resource \in Resources, id \in Identifiers :
         rcalls' = [rcalls EXCEPT ![j] =
            [pc |-> "Awaiting", resource |-> resource,
             url |-> RequestUrl(resource, id), cbCalls |-> 1]]
    /\ UNCHANGED <<configured, telemetry, calls, reg>>

\* the awaited resource callback settles and the wrapper runs to its end
SettleResource(j) ==
    /\ rcalls[j].pc = "Awaiting"
    /\ \E settled \in ResourceOutcomes :
         LET rcall == rcalls[j]
             a == ResourceAfterAwait(j, rcall.resource, rcall.url, settled)
         IN /\ rcalls' = [rcalls EXCEPT ![j] =
                 [pc |-> "Done", resource |-> rcall.resource, url |-> rcall.url,
                  cbCalls |-> rcall.cbCalls, cb |-> settled,
                  outcome |-> a.outcome]]
            /\ telemetry' = telemetry \o a.notified
    /\ UNCHANGED <<configured, calls, reg>>

----------------------------------------------------------------------------
(* Specifications *)

Init ==
    /\ configured \in BOOLEAN
    /\ telemetry = <<>>
    /\ calls = [i \in Calls |-> [pc |-> "Idle"]]
    /\ rcalls = [j \in ResourceCalls |-> [pc |-> "Idle"]]
    /\ reg = [pc |-> "None"]

Next ==
    \/ Configure
    \/ \E i \in Calls : Invoke(i) \/ Settle(i)

\* invocations of tool wrappers
Spec == Init /\ [][Next]_vars

NextResource ==
    \/ Configure
    \/ \E j \in ResourceCalls : InvokeResource(j) \/ SettleResource(j)

\* invocations of resource wrappers
ResourceSpec == Init /\ [][NextResource]_vars

----------------------------------------------------------------------------
(* Properties of the tool wrapper *)

Done(i) == calls[i].pc = "Done"

\* the notifications the sink holds from one invocation
NotificationsOf(id) == SelectSeq(telemetry, LAMBDA n : n.call = id)

\* the callback of invocation i was called and has rejected with e
CallbackRejected(i, e) ==
    Done(i) /\ Has(calls[i], "cb") /\ calls[i].cb = Rejected(e)

\* the callback of invocation i was called and has resolved to a result
CallbackResolved(i) ==
    Done(i) /\ Has(calls[i], "cb") /\ calls[i].cb.kind = "resolved"

IsErrorSet(result) == Has(result, "isError") /\ result.isError

\* the names the two registered tools get from prefix "tp"
ExpectedToolName(params) ==
    IF params.title = <<"T","e","s","t"," ","T","o","o","l">>
    THEN <<"t","p","_","t","e","s","t","_","t","o","o","l">>
    ELSE <<"t","p","_","g","e","t","_","v","a","l","u","e","s">>

ExpectedErrorResult(params, message) ==
    [isError |-> TRUE,
     content |-> << [type |-> "text",
                     text |-> <<"Error executing ", "Test Product", ": ">>
                                \o params.title \o <<": ">> \o message] >>]

\* C1: when the callback of an invocation raises an error that is not a
\* ToolError, the invocation ends by throwing that same error, the sink holds
\* exactly one notification of the invocation, carrying the error, the
\* metadata {tool: normalized name} and unhandled = true, and the wrapper
\* returns no result.
UnexpectedErrorReportedAndRethrown ==
    \A i \in Calls : \A e \in CallbackErrors :
        (CallbackRejected(i, e) /\ e.class # "ToolError") =>
            /\ calls[i].outcome = [kind |-> "thrown", error |-> e]
            /\ NotificationsOf(<<"tool", i>>) =
                 << [call |-> <<"tool", i>>, error |-> e,
                     metadata |-> [tool |-> ExpectedToolName(calls[i].params)],
                     unhandled |-> TRUE] >>

UnexpectedErrorWitness ==
    \E i \in Calls :
        /\ CallbackRejected(i, Error(<<"Y">>))
        /\ calls[i].outcome.kind = "thrown"
        /\ Len(NotificationsOf(<<"tool", i>>)) = 1

\* C2: when the callback raises a ToolError with message M, the invocation
\* returns {isError: true, content: [{type: "text", text: "Error executing "
\* + client.name + ": " + title + ": " + M}]} and the sink holds no
\* notification of it.
ToolErrorReturnedNotReported ==
    \A i \in Calls : \A e \in CallbackErrors :
        (CallbackRejected(i, e) /\ e.class = "ToolError") =>
            /\ calls[i].outcome =
                 [kind |-> "returned",
                  value |-> ExpectedErrorResult(calls[i].params, e.message)]
            /\ NotificationsOf(<<"tool", i>>) = <<>>

ToolErrorWitness ==
    \E i \in Calls :
        /\ CallbackRejected(i, ToolError(<<"X">>))
        /\ calls[i].outcome.kind = "returned"
        /\ telemetry = <<>>

\* C3: an invocation whose isConfigured() query answered false returns the
\* isError result with the configuration message, sends no notification, and
\* never reaches the callback, so that what the callback would have done
\* plays no part.
NotConfiguredReturnsError ==
    \A i \in Calls :
        (calls[i].pc # "Idle" /\ ~calls[i].isConfigured) =>
            /\ Done(i)
            /\ calls[i].outcome =
                 [kind |-> "returned",
                  value |-> ExpectedErrorResult(calls[i].params,
                     <<"The tool is not configured - configuration options for ",
                       "Test Product", " are missing or invalid.">>)]
            /\ NotificationsOf(<<"tool", i>>) = <<>>
            /\ calls[i].cbCalls = 0
            /\ ~Has(calls[i], "cb")

NotConfiguredWitness ==
    \E i \in Calls :
        /\ Done(i)
        /\ ~calls[i].isConfigured
        /\ calls[i].outcome.kind = "returned"
        /\ calls[i].outcome.value.isError

\* the callback of invocation i, a tool with an outputSchema, resolved to a
\* result that is no error and has no structuredContent
MissingStructuredContent(i) ==
    /\ CallbackResolved(i)
    /\ Has(calls[i].params, "outputSchema")
    /\ ~IsErrorSet(calls[i].cb.value)
    /\ ~Has(calls[i].cb.value, "structuredContent")

\* C4: for a tool with an outputSchema, an invocation whose callback resolves
\* to a result with isError false or unset and no structuredContent throws an
\* Error with the message "The result of the tool '{title}' must include
\* 'structuredContent'", the sink holds exactly one notification of it, and
\* no isError result is returned.
MissingStructuredContentThrows ==
    \A i \in Calls :
        MissingStructuredContent(i) =>
            LET err == [class |-> "Error",
                        message |-> <<"The result of the tool '">>
                                      \o calls[i].params.title
                                      \o <<"' must include 'structuredContent'">>]
            IN /\ calls[i].outcome = [kind |-> "thrown", error |-> err]
               /\ NotificationsOf(<<"tool", i>>) =
                    << [call |-> <<"tool", i>>, error |-> err,
                        metadata |-> [tool |-> ExpectedToolName(calls[i].params)],
                        unhandled |-> TRUE] >>

MissingStructuredContentWitness ==
    \E i \in Calls :
        /\ MissingStructuredContent(i)
        /\ calls[i].cb.value = [isError |-> FALSE]
        /\ calls[i].outcome.kind = "thrown"
        /\ Len(telemetry) = 1

ErrorResultNotValidated ==
    \A i \in Calls :
        (/\ CallbackResolved(i)
         /\ Has(calls[i].params, "outputSchema")
         /\ IsErrorSet(calls[i].cb.value)
         /\ ~Has(calls[i].cb.value, "structuredContent")) =>
            /\ calls[i].outcome = [kind |-> "returned", value |-> calls[i].cb.value]
            /\ NotificationsOf(<<"tool", i>>) = <<>>

ErrorResultNotValidatedWitness ==
    \E i \in Calls :
        /\ CallbackResolved(i)
        /\ Has(calls[i].params, "outputSchema")
        /\ calls[i].cb.value = [isError |-> TRUE]
        /\ calls[i].outcome = [kind |-> "returned", value |-> [isError |-> TRUE]]
        /\ telemetry = <<>>

\* the JSON text of the structured values of the model
ExpectedJSON(value) ==
    IF value = << <<"result", "success">> >>
    THEN <<"{", "\"", "result", "\":\"", "success", "\"", "}">>
    ELSE <<"{", "}">>

SameField(a, b, key) ==
    /\ Has(a, key) <=> Has(b, key)
    /\ Has(a, key) => a[key] = b[key]

\* C7: for a callback result that passes validation, the returned result has
\* as content the single text item holding the JSON of structuredContent when
\* structuredContent is present and content is absent or empty, and the
\* callback's content, unchanged, otherwise; structuredContent and isError
\* are as the callback set them.
ContentNormalized ==
    \A i \in Calls :
        (CallbackResolved(i) /\ calls[i].outcome.kind = "returned") =>
            LET given == calls[i].cb.value
                out == calls[i].outcome.value
            IN /\ SameField(given, out, "structuredContent")
               /\ SameField(given, out, "isError")
               /\ DOMAIN out \subseteq {"isError", "content", "structuredContent"}
               /\ IF /\ Has(given, "structuredContent")
                     /\ (~Has(given, "content") \/ given.content = <<>>)
                  THEN /\ Has(out, "content")
                       /\ out.content =
                            << [type |-> "text",
                                text |-> ExpectedJSON(given.structuredContent)] >>
                  ELSE SameField(given, out, "content")

\* content is synthesized for one invocation and kept for another
ContentNormalizedWitness ==
    \E i, j \in Calls :
        /\ CallbackResolved(i) /\ CallbackResolved(j)
        /\ calls[i].outcome.kind = "returned"
        /\ calls[j].outcome.kind = "returned"
        /\ Has(calls[i].cb.value, "structuredContent")
        /\ Has(calls[i].cb.value, "content") /\ calls[i].cb.value.content = <<>>
        /\ Len(calls[i].outcome.value.content) = 1
        /\ Has(calls[j].cb.value, "structuredContent")
        /\ Has(calls[j].cb.value, "content") /\ calls[j].cb.value.content # <<>>
        /\ calls[j].outcome.value.content = calls[j].cb.value.content

----------------------------------------------------------------------------
(* Properties of the resource wrapper, under ResourceSpec *)

ResourceDone(j) == rcalls[j].pc = "Done"

\* C8: when the callback of a resource invocation raises any exception, a
\* ToolError included, the sink holds exactly one notification of it with the
\* metadata {resource: name, url} and unhandled = true, and the invocation
\* ends by throwing the same exception, never by returning; when the callback
\* succeeds, its value is returned and nothing is notified.
ResourceErrorsReportedAndRethrown ==
    \A j \in ResourceCalls :
        ResourceDone(j) =>
            LET rcall == rcalls[j]
            IN /\ rcall.cb.kind = "rejected" =>
                    /\ rcall.outcome = [kind |-> "thrown", error |-> rcall.cb.error]
                    /\ NotificationsOf(<<"resource", j>>) =
                         << [call |-> <<"resource", j>>, error |-> rcall.cb.error,
                             metadata |-> [resource |-> rcall.resource.name,
                                           url |-> rcall.url],
                             unhandled |-> TRUE] >>
               /\ rcall.cb.kind = "resolved" =>
                    /\ rcall.outcome = [kind |-> "returned", value |-> rcall.cb.value]
                    /\ NotificationsOf(<<"resource", j>>) = <<>>
               /\ rcall.cb.kind = "undefined" =>
                    /\ rcall.outcome = [kind |-> "returnedUndefined"]
                    /\ NotificationsOf(<<"resource", j>>) = <<>>

\* one resource callback raised a ToolError and another succeeded
ResourceErrorWitness ==
    \E j, k \in ResourceCalls :
        /\ ResourceDone(j) /\ ResourceDone(k)
        /\ rcalls[j].cb = Rejected(ToolError(<<"X">>))
        /\ rcalls[j].outcome.kind = "thrown"
        /\ rcalls[k].cb.kind = "resolved"
        /\ rcalls[k].outcome.kind = "returned"
        /\ Len(telemetry) = 1

----------------------------------------------------------------------------
(* Cancellation and concurrency of the tool wrapper *)

\* C9: when the callback of a tool ends with a cancellation signal, the
\* invocation ends by throwing that same signal; it never returns a result
\* in its place.
CancellationPropagates ==
    \A i \in Calls :
        CallbackRejected(i, AbortError) =>
            calls[i].outcome =
                [kind |-> "thrown",
                 error |-> [class |-> "AbortError",
                            message |-> <<"This operation was aborted">>]]

CancellationWitness ==
    \E i \in Calls :
        /\ CallbackRejected(i, AbortError)
        /\ calls[i].outcome.kind = "thrown"

\* what an invocation was given: its tool, the answer of its isConfigured()
\* query and the outcome of its callback, when it called it
SameInputs(i, j) ==
    /\ calls[i].params = calls[j].params
    /\ calls[i].isConfigured = calls[j].isConfigured
    /\ SameField(calls[i], calls[j], "cb")

\* a notification without the mark of the invocation that sent it
Unmarked(n) ==
    [error |-> n.error, metadata |-> n.metadata, unhandled |-> n.unhandled]

Reports(i) ==
    LET ns == NotificationsOf(<<"tool", i>>)
    IN [k \in 1..Len(ns) |-> Unmarked(ns[k])]

\* C10: however invocations interleave with each other and with changes of
\* the client's configuration, two finished invocations that were given the
\* same tool, the same isConfigured() answer and the same callback outcome
\* end in the same way and send the same notifications: the outcome of an
\* invocation is a function of what it was given itself.
OutcomeIndependentOfOtherCalls ==
    \A i, j \in Calls :
        (Done(i) /\ Done(j) /\ SameInputs(i, j)) =>
            /\ calls[i].outcome = calls[j].outcome
            /\ Reports(i) = Reports(j)

\* two invocations of one tool whose callbacks threw the same unexpected
\* error: each was reported
OutcomeIndependentWitness ==
    \E i, j \in Calls :
        /\ i # j
        /\ CallbackRejected(i, Error(<<"Y">>))
        /\ CallbackRejected(j, Error(<<"Y">>))
        /\ calls[i].params = calls[j].params
        /\ Len(Reports(i)) = 1 /\ Len(Reports(j)) = 1
        /\ Len(telemetry) = 2

----------------------------------------------------------------------------
(* Schemas: the zod types the code tells apart with instanceof *)

\* bounds of the generated schemas
MaxIntersectionDepth == 2    \* nesting of intersections
MaxWrapperDepth == 2         \* optional and default wrappers around a type
MaxRecordDepth == 2          \* nesting of records

\* a type without parts the code looks into; "date" stands for the types the
\* code has no case for
Leaf(kind) == [kind |-> kind]
LeafKinds ==
    { "string", "number", "boolean", "array", "enum", "literal", "union",
      "any", "date" }

\* z.object(shape): shape is the sequence of <<name, type>> in declaration order
Object(shape) == [kind |-> "object", shape |-> shape]
Intersection(left, right) ==
    [kind |-> "intersection", left |-> left, right |-> right]
Optional(inner) == [kind |-> "optional", inner |-> inner]
Default(inner, value) ==
    [kind |-> "default", inner |-> inner, defaultValue |-> value]
Record(keyType, valueType) ==
    [kind |-> "record", keyType |-> keyType, valueType |-> valueType]

\* schema.describe(text)
Describe(node, text) == [description |-> text] @@ node

\* the values given to .default(): a number, a boolean and a string, two of
\* them falsy
NumberValue(n) == [json |-> "number", number |-> n]
BooleanValue(b) == [json |-> "boolean", boolean |-> b]
StringValue(str) == [json |-> "string", string |-> str]
DefaultValues == { NumberValue(1), BooleanValue(FALSE), StringValue("") }

\* JSON.stringify of such a value
JSONstringifyValue(value) ==
    CASE value.json = "number" -> <<ToString(value.number)>>
      [] value.json = "boolean" -> <<IF value.boolean THEN "true" ELSE "false">>
      [] value.json = "string" -> <<"\"", value.string, "\"">>

ObjectA == Object(<< <<"a", Leaf("string")>>, <<"b", Leaf("number")>> >>)
ObjectB == Object(<< <<"b", Leaf("boolean")>>, <<"c", Leaf("string")>> >>)

RECURSIVE IntersectionNodes(_)
IntersectionNodes(depth) ==
    IF depth = 0 THEN { ObjectA, ObjectB, Leaf("string") }
    ELSE LET inner == IntersectionNodes(depth - 1)
         IN inner \cup { Intersection(l, r) : l \in inner, r \in inner }

RECURSIVE WrapperNodes(_, _)
\* the types of `base` under at most `depth` wrappers
WrapperNodes(base, depth) ==
    IF depth = 0 THEN base
    ELSE LET inner == WrapperNodes(base, depth - 1)
         IN inner \cup { Optional(n) : n \in inner }
                  \cup { Default(n, v) : n \in inner, v \in DefaultValues }

RECURSIVE RecordNodes(_)
RecordNodes(depth) ==
    IF depth = 0
    THEN { Leaf("string"), Leaf("number"), Leaf("date"),
           Optional(Leaf("array")), Default(Leaf("boolean"), BooleanValue(FALSE)),
           Intersection(ObjectA, ObjectB) }
    ELSE LET inner == RecordNodes(depth - 1)
         IN inner \cup { Record(k, v) :
                           k \in { Leaf("string"), Optional(Leaf("enum")) },
                           v \in inner }

\* types with a description on the type, on a wrapper, on both, and an empty one
DescribedNodes ==
    { Describe(Leaf("string"), "inner"),
      Describe(Leaf("string"), ""),
      Optional(Describe(Leaf("string"), "inner")),
      Describe(Optional(Leaf("string")), "outer"),
      Default(Describe(Leaf("number"), "inner"), NumberValue(1)),
      Describe(Default(Describe(Leaf("number"), "inner"), NumberValue(1)), "outer"),
      Describe(Optional(Describe(Leaf("boolean"), "")), "") }

SchemaNodes ==
    IntersectionNodes(MaxIntersectionDepth)
    \cup WrapperNodes({ Leaf(k) : k \in LeafKinds }
                        \cup { ObjectA, Intersection(ObjectA, ObjectB),
                               Record(Leaf("string"), Leaf("number")) },
                      MaxWrapperDepth)
    \cup RecordNodes(MaxRecordDepth)
    \cup DescribedNodes

\* the argument of a helper called without a schema
AbsentSchema == [kind |-> "undefined"]

----------------------------------------------------------------------------
(* The schema helpers, server.ts 197-215 and 324-340 *)

\* a raw shape is the sequence of its <<name, type>> entries, in key order
UndefinedShape == [undefined |-> TRUE]
RawShape(entries) == [entries |-> entries]

Names(entries) == { entries[k][1] : k \in 1..Len(entries) }
Lookup(entries, name) ==
    entries[CHOOSE k \in 1..Len(entries) : entries[k][1] = name][2]

\* a spread in which a key of both keeps the value of left
SpreadLeftWins(left, right) ==
    LET l == IF left = UndefinedShape THEN <<>> ELSE left.entries
        r == IF right = UndefinedShape THEN <<>> ELSE right.entries
    IN RawShape(l \o SelectSeq(r, LAMBDA entry : entry[1] \notin Names(l)))

\* {...left, ...right} (line 211): spreading undefined adds nothing; a key of
\* both keeps its place in left and takes its value from right
Spread(left, right) ==
    LET l == IF left = UndefinedShape THEN <<>> ELSE left.entries
        r == IF right = UndefinedShape THEN <<>> ELSE right.entries
        kept == [k \in 1..Len(l) |->
                   IF l[k][1] \in Names(r)
                   THEN <<l[k][1], Lookup(r, l[k][1])>>
                   ELSE l[k]]
        added == SelectSeq(r, LAMBDA entry : entry[1] \notin Names(l))
    IN RawShape(kept \o added)

RECURSIVE schemaToRawShape(_)
schemaToRawShape(schema) ==
    IF schema = AbsentSchema THEN UndefinedShape
    ELSE IF schema.kind = "object" THEN RawShape(schema.shape)
    ELSE IF schema.kind = "intersection"
         THEN Spread(schemaToRawShape(schema.left), schemaToRawShape(schema.right))
         ELSE UndefinedShape

RECURSIVE unwrapZodType(_)
\* zod-utils.ts: strips the optional and default wrappers
unwrapZodType(zodType) ==
    IF zodType.kind \in { "optional", "default" }
    THEN unwrapZodType(zodType.inner)
    ELSE zodType

RECURSIVE getReadableTypeNameOfWrapper(_)
\* the labels of a function that looks at the wrapper, not at what it wraps
getReadableTypeNameOfWrapper(zodType) ==
    IF zodType.kind = "record"
    THEN <<"record<">> \o getReadableTypeNameOfWrapper(zodType.keyType)
           \o <<", ">> \o getReadableTypeNameOfWrapper(zodType.valueType) \o <<">">>
    ELSE IF zodType.kind \in { "string", "number", "boolean", "array",
                               "object", "enum", "literal", "union", "any" }
         THEN <<zodType.kind>>
         ELSE <<"any">>

RECURSIVE getReadableTypeName(_)
getReadableTypeName(zodType) ==
    LET unwrapped == unwrapZodType(zodType)
    IN IF unwrapped.kind = "record"
       THEN <<"record<">> \o getReadableTypeName(unwrapped.keyType)
              \o <<", ">> \o getReadableTypeName(unwrapped.valueType) \o <<">">>
       ELSE IF unwrapped.kind \in { "string", "number", "boolean", "array",
                                    "object", "enum", "literal", "union", "any" }
            THEN <<unwrapped.kind>>
            ELSE <<"any">>

\* a string argument that may be null
Null == [null |-> TRUE]
String(s) == [string |-> s]
IsNonEmptyText(fragments) == \E k \in 1..Len(fragments) : fragments[k] # ""

\* field.description || null
DescriptionOf(field) ==
    IF Has(field, "description") /\ field.description # ""
    THEN String(field.description)
    ELSE Null

RECURSIVE formatParameterDescriptionFirstDefault(_, _, _, _, _)
\* a formatter that keeps the first default it meets
formatParameterDescriptionFirstDefault(key, field, description, isOptional, defaultValue) ==
    LET d == IF description # Null THEN description ELSE DescriptionOf(field)
    IN IF field.kind = "optional"
       THEN formatParameterDescriptionFirstDefault(key, field.inner, d, TRUE, defaultValue)
       ELSE IF field.kind = "default"
       THEN formatParameterDescriptionFirstDefault(
                key, field.inner, d, TRUE,
                IF defaultValue # Null THEN defaultValue
                ELSE String(JSONstringifyValue(field.defaultValue)))
       ELSE <<"- ", key, " (">> \o getReadableTypeName(field) \o <<")">>
              \o (IF isOptional THEN <<>> ELSE <<" *required*">>)
              \o (IF d # Null /\ d.string # "" THEN <<": ", d.string>> ELSE <<>>)
              \o (IF defaultValue # Null /\ IsNonEmptyText(defaultValue.string)
                  THEN <<" (default: ">> \o defaultValue.string \o <<")">>
                  ELSE <<>>)

RECURSIVE formatParameterDescription(_, _, _, _, _)
\* lines 285-322; the result is the line as a sequence of text fragments
formatParameterDescription(key, field, description, isOptional, defaultValue) ==
    LET d == IF description # Null THEN description ELSE DescriptionOf(field)
    IN IF field.kind = "optional"
       THEN formatParameterDescription(key, field.inner, d, TRUE, defaultValue)
       ELSE IF field.kind = "default"
       THEN formatParameterDescription(
                key, field.inner, d, TRUE,
                String(JSONstringifyValue(field.defaultValue)))
       ELSE <<"- ", key, " (">> \o getReadableTypeName(field) \o <<")">>
              \o (IF isOptional THEN <<>> ELSE <<" *required*">>)
              \o (IF d # Null /\ d.string # "" THEN <<": ", d.string>> ELSE <<>>)
              \o (IF defaultValue # Null /\ IsNonEmptyText(defaultValue.string)
                  THEN <<" (default: ">> \o defaultValue.string \o <<")">>
                  ELSE <<>>)

\* the key under which SchemaSpec formats a field
FieldKey == "p"

\* registrations of nothing: a schema helper is called with a schema, as the
\* unit tests call them
SchemaInputs ==
    { [pc |-> "Pending", family |-> "schema", schema |-> schema] :
        schema \in SchemaNodes \cup { AbsentSchema } }

CallSchemaToRawShape ==
    /\ reg.pc = "Pending" /\ reg.family = "schema"
    /\ reg' = [pc |-> "Shape", family |-> "schema", schema |-> reg.schema,
               shape |-> schemaToRawShape(reg.schema)]
    /\ UNCHANGED <<configured, telemetry, calls, rcalls>>

CallGetReadableTypeName ==
    /\ reg.pc = "Pending" /\ reg.family = "schema"
    /\ reg.schema # AbsentSchema
    /\ reg' = [pc |-> "TypeName", family |-> "schema", schema |-> reg.schema,
               typeName |-> getReadableTypeName(reg.schema)]
    /\ UNCHANGED <<configured, telemetry, calls, rcalls>>

\* getDescription's call (line 251): the last three arguments take their defaults
CallFormatParameterDescription ==
    /\ reg.pc = "Pending" /\ reg.family = "schema"
    /\ reg.schema # AbsentSchema
    /\ reg' = [pc |-> "Line", family |-> "schema", schema |-> reg.schema,
               line |-> formatParameterDescription(FieldKey, reg.schema, Null, FALSE, Null)]
    /\ UNCHANGED <<configured, telemetry, calls, rcalls>>

InitSchema ==
    /\ configured \in BOOLEAN
    /\ telemetry = <<>>
    /\ calls = [i \in Calls |-> [pc |-> "Idle"]]
    /\ rcalls = [j \in ResourceCalls |-> [pc |-> "Idle"]]
    /\ reg \in SchemaInputs

NextSchema ==
    \/ CallSchemaToRawShape
    \/ CallGetReadableTypeName
    \/ CallFormatParameterDescription

\* calls of the schema helpers
SchemaSpec == InitSchema /\ [][NextSchema]_vars

----------------------------------------------------------------------------
(* The description compiler, server.ts 221-283 *)

\* A text is a sequence of fragments. Where a text can begin or end, a
\* fragment is either whitespace only or has no whitespace at that end, so
\* that trimming a text is dropping its outer whitespace fragments.
WhitespaceFragments == { "", " ", "\t", "\n", "\n\n" }

RECURSIVE trimStart(_)
trimStart(text) ==
    IF text # <<>> /\ Head(text) \in WhitespaceFragments
    THEN trimStart(Tail(text))
    ELSE text

RECURSIVE trimEnd(_)
trimEnd(text) ==
    IF text # <<>> /\ text[Len(text)] \in WhitespaceFragments
    THEN trimEnd(SubSeq(text, 1, Len(text) - 1))
    ELSE text

\* String.prototype.trim
trim(text) == trimEnd(trimStart(text))

RECURSIVE join(_, _)
\* Array.prototype.join over texts
join(texts, separator) ==
    IF texts = <<>> THEN <<>>
    ELSE IF Len(texts) = 1 THEN texts[1]
    ELSE texts[1] \o separator \o join(Tail(texts), separator)

\* an array of strings as an array of texts
Texts(strings) == [k \in 1..Len(strings) |-> <<strings[k]>>]

\* JSON.stringify(obj, null, 2) of an object with string members
JSONstringifyPretty(obj) ==
    IF obj = <<>> THEN <<"{}">>
    ELSE <<"{", "\n">>
           \o join([k \in 1..Len(obj) |->
                      <<"  ", "\"", obj[k][1], "\"", ": ", "\"", obj[k][2], "\"">>],
                   <<",", "\n">>)
           \o <<"\n", "}">>

\* lines 238-242: the line of one explicit parameter
parameterLine(p) ==
    <<"- ", p.name, " (">> \o getReadableTypeName(p.type) \o <<")">>
      \o (IF Has(p, "required") /\ p.required THEN <<" *required*">> ELSE <<>>)
      \o (IF Has(p, "description") /\ p.description # ""
          THEN <<": ", p.description>> ELSE <<>>)
      \o (IF Has(p, "examples")
          THEN <<" (e.g. ">> \o join(Texts(p.examples), <<", ">>) \o <<")">>
          ELSE <<>>)
      \o (IF Has(p, "constraints")
          THEN <<"\n", "  - ">> \o join(Texts(p.constraints), <<"\n", "  - ">>)
          ELSE <<>>)

\* lines 235-244
parametersText(parameters) ==
    join([k \in 1..Len(parameters) |-> parameterLine(parameters[k])], <<"\n">>)

\* lines 249-253
schemaParametersText(shape) ==
    join([k \in 1..Len(shape) |->
            formatParameterDescription(shape[k][1], shape[k][2], Null, FALSE, Null)],
         <<"\n">>)

\* lines 262 and 279: `${i + 1}. ${item}` joined by a space
numberedText(items) ==
    join([k \in 1..Len(items) |-> <<ToString(k), ". ", items[k]>>], <<" ">>)

\* the fence of a code block: three backquotes, written with apostrophes
\* because a string of this notation cannot hold a backquote
CodeFence == "'''"

\* lines 270-273
exampleText(idx, ex) ==
    <<ToString(idx), ". ", ex.description, "\n", CodeFence, "json", "\n">>
      \o JSONstringifyPretty(ex.parameters)
      \o <<"\n", CodeFence>>
      \o (IF Has(ex, "expectedOutput") /\ ex.expectedOutput # ""
          THEN <<"\n", "Expected Output: ", ex.expectedOutput>>
          ELSE <<>>)

examplesText(examples) ==
    join([k \in 1..Len(examples) |-> exampleText(k, examples[k])], <<"\n\n">>)

\* a list field of params, empty when the field is not set
ListOf(params, key) == IF Has(params, key) THEN params[key] ELSE <<>>

\* lines 232-280: the description before the final trim
descriptionBeforeTrim(params) ==
    LET summary == params.summary
        withParameters ==
            IF Len(ListOf(params, "parameters")) > 0
            THEN summary \o <<"\n\n", "**Parameters:**", "\n">>
                   \o parametersText(params.parameters)
            ELSE summary
        withSchema ==
            IF Has(params, "inputSchema") /\ params.inputSchema.kind = "object"
            THEN withParameters \o <<"\n\n", "**Parameters:**", "\n">>
                   \o schemaParametersText(params.inputSchema.shape)
            ELSE withParameters
        withOutput ==
            IF Has(params, "outputDescription") /\ params.outputDescription # ""
            THEN withSchema
                   \o <<"\n\n", "**Output Description:**", " ", params.outputDescription>>
            ELSE withSchema
        withUseCases ==
            IF Len(ListOf(params, "useCases")) > 0
            THEN withOutput \o <<"\n\n", "**Use Cases:**", " ">>
                   \o numberedText(params.useCases)
            ELSE withOutput
        withExamples ==
            IF Len(ListOf(params, "examples")) > 0
            THEN withUseCases \o <<"\n\n", "**Examples:**", "\n">>
                   \o examplesText(params.examples)
            ELSE withUseCases
    IN IF Len(ListOf(params, "hints")) > 0
       THEN withExamples \o <<"\n\n", "**Hints:**", " ">> \o numberedText(params.hints)
       ELSE withExamples

\* a compiler that returns the text as assembled
getDescriptionKeepsWhitespace(params) == descriptionBeforeTrim(params)

getDescription(params) == trim(descriptionBeforeTrim(params))

\* lines 182-195: the explicit parameters as schema fields, then the fields
\* of inputSchema
parameterField(param) ==
    LET described ==
            IF Has(param, "description") /\ param.description # ""
            THEN Describe(param.type, param.description)
            ELSE param.type
    IN <<param.name,
         IF Has(param, "required") /\ param.required
         THEN described ELSE Optional(described)>>

getInputSchema(params) ==
    LET parameters == ListOf(params, "parameters")
        args == RawShape([k \in 1..Len(parameters) |-> parameterField(parameters[k])])
    IN Spread(args,
              schemaToRawShape(IF Has(params, "inputSchema")
                               THEN params.inputSchema ELSE AbsentSchema))

\* lines 217-219
getOutputSchema(params) ==
    schemaToRawShape(IF Has(params, "outputSchema")
                     THEN params.outputSchema ELSE AbsentSchema)

----------------------------------------------------------------------------
(* Registration, server.ts 60-73: what the client's ToolParams become *)

\* bounds of the registration inputs
MaxTitleLength == 4       \* characters of a generated title
LongPrefixLength == 60    \* characters of the long tool prefixes

Repeat(c, n) == [k \in 1..n |-> c]

RECURSIVE SeqsUpTo(_, _)
\* the sequences over S of length at most n
SeqsUpTo(S, n) ==
    IF n = 0 THEN { <<>> }
    ELSE LET shorter == SeqsUpTo(S, n - 1)
         IN shorter \cup { Append(q, x) : q \in shorter, x \in S }

\* titles with capitals and with runs of whitespace
TitleAlphabet == { "A", "b", " ", "\t" }
Titles == SeqsUpTo(TitleAlphabet, MaxTitleLength)

\* tool prefixes: with the long ones the raw name reaches past 64 characters
Prefixes ==
    { Repeat("p", n) :
        n \in { 2, LongPrefixLength, LongPrefixLength + 2, LongPrefixLength + 6 } }

Summary == <<"A test tool">>

\* registrations that vary the client's prefix and the title
NameInputs ==
    { [pc |-> "Pending", family |-> "name",
       client |-> [name |-> ClientName, toolPrefix |-> toolPrefix],
       params |-> [title |-> title, summary |-> Summary]] :
        toolPrefix \in Prefixes, title \in Titles }

\* every way of setting, to true or false, or leaving unset the four flags
FlagNames == { "readOnly", "destructive", "idempotent", "openWorld" }

FlagSettings ==
    { Field("readOnly", r) @@ Field("destructive", d)
        @@ Field("idempotent", i) @@ Field("openWorld", o) :
        r \in {<<>>, <<TRUE>>, <<FALSE>>}, d \in {<<>>, <<TRUE>>, <<FALSE>>},
        i \in {<<>>, <<TRUE>>, <<FALSE>>}, o \in {<<>>, <<TRUE>>, <<FALSE>>} }

\* registrations that vary the four flags
AnnotationInputs ==
    { [pc |-> "Pending", family |-> "annotations",
       client |-> [name |-> ClientName, toolPrefix |-> ToolPrefix],
       params |-> flags @@ [title |-> title, summary |-> Summary]] :
        flags \in FlagSettings,
        title \in { <<"T","e","s","t"," ","T","o","o","l">>, <<"G","e","t">> } }

\* line 64, for a client with the given name
toolTitleOf(client, params) == <<client.name, ": ">> \o params.title

\* mutant: `||` in place of `??`, which also replaces a flag set to false
getAnnotationsWithOr(title, params) ==
    [title |-> title,
     readOnlyHint |-> (Has(params, "readOnly") /\ params.readOnly) \/ TRUE,
     destructiveHint |-> (Has(params, "destructive") /\ params.destructive) \/ FALSE,
     idempotentHint |-> (Has(params, "idempotent") /\ params.idempotent) \/ TRUE,
     openWorldHint |-> (Has(params, "openWorld") /\ params.openWorld) \/ FALSE]

\* lines 168-180
getAnnotations(title, params) ==
    [title |-> title,
     readOnlyHint |-> IF Has(params, "readOnly") THEN params.readOnly ELSE TRUE,
     destructiveHint |->
        IF Has(params, "destructive") THEN params.destructive ELSE FALSE,
     idempotentHint |->
        IF Has(params, "idempotent") THEN params.idempotent ELSE TRUE,
     openWorldHint |->
        IF Has(params, "openWorld") THEN params.openWorld ELSE FALSE]

\* lines 61-73: the arguments of super.registerTool
RegisteredTool(client, params) ==
    [name |-> toolNameOf(client.toolPrefix, params.title),
     title |-> toolTitleOf(client, params),
     description |-> getDescription(params),
     inputSchema |-> getInputSchema(params),
     outputSchema |-> getOutputSchema(params),
     annotations |-> getAnnotations(toolTitleOf(client, params), params)]

\* the fields of the ToolParams a description is compiled from; an option is
\* <<>> for a field that is not set and <<value>> for one that is
PaddedSummary == <<" ", "A test tool", "\n">>

FirstParameter ==
    [name |-> "p1", type |-> Leaf("string"), required |-> TRUE,
     description |-> "first", examples |-> <<"e1", "e2">>,
     constraints |-> <<"c1", "c2">>]
SecondParameter ==
    [name |-> "p2", type |-> Record(Leaf("string"), Leaf("number"))]
ParametersOptions == { <<>>, << <<>> >>, << <<FirstParameter, SecondParameter>> >> }

FieldsObject ==
    Object(<< <<"q", Describe(Leaf("string"), "query")>>,
              <<"n", Default(Describe(Leaf("number"), "count"), NumberValue(1))>>,
              <<"f", Optional(Leaf("boolean"))>> >>)
InputSchemaOptions ==
    { <<>>, <<Object(<<>>)>>, <<FieldsObject>>,
      <<Intersection(ObjectA, ObjectB)>>, <<Leaf("array")>> }
OutputSchemaOptions == { <<>>, <<ObjectB>> }

OutputDescriptionOptions == { <<>>, <<"">>, <<"The values">> }
UseCasesOptions == { <<>>, << <<>> >>, << <<"browse", "search">> >> }
ExamplesOptions ==
    { <<>>, << <<>> >>,
      << << [description |-> "one", parameters |-> << <<"q", "x">> >>,
             expectedOutput |-> "found"],
            [description |-> "none", parameters |-> <<>>] >> >> }
HintsOptions == { <<>>, << <<>> >>, << <<"page", "filter">> >> }

DescriptionInputs ==
    { [pc |-> "Pending", family |-> "description",
       client |-> [name |-> ClientName, toolPrefix |-> ToolPrefix],
       params |-> Field("parameters", parameters)
                    @@ Field("inputSchema", inputSchema)
                    @@ Field("outputSchema", outputSchema)
                    @@ Field("outputDescription", outputDescription)
                    @@ Field("useCases", useCases)
                    @@ Field("examples", examples)
                    @@ Field("hints", hints)
                    @@ [title |-> <<"G", "e", "t">>, summary |-> summary]] :
        parameters \in ParametersOptions,
        inputSchema \in InputSchemaOptions,
        outputSchema \in OutputSchemaOptions,
        outputDescription \in OutputDescriptionOptions,
        useCases \in UseCasesOptions,
        examples \in ExamplesOptions,
        hints \in HintsOptions,
        summary \in { Summary, PaddedSummary } }

RegistrationInputs == NameInputs \cup AnnotationInputs \cup DescriptionInputs

\* the client calls the register function with its ToolParams (line 60)
RegisterTool ==
    /\ reg.pc = "Pending"
    /\ reg' = [pc |-> "Registered", family |-> reg.family,
               client |-> reg.client, params |-> reg.params,
               tool |-> RegisteredTool(reg.client, reg.params)]
    /\ UNCHANGED <<configured, telemetry, calls, rcalls>>

InitRegistration ==
    /\ configured \in BOOLEAN
    /\ telemetry = <<>>
    /\ calls = [i \in Calls |-> [pc |-> "Idle"]]
    /\ rcalls = [j \in ResourceCalls |-> [pc |-> "Idle"]]
    /\ reg \in RegistrationInputs

NextRegistration == RegisterTool

\* registrations of tools
RegistrationSpec == InitRegistration /\ [][NextRegistration]_vars

----------------------------------------------------------------------------
(* Properties of the registered name *)

Registered(family) == reg.pc = "Registered" /\ reg.family = family

\* the characters of s that survive when every run of whitespace is replaced
\* by one "_" and "A" is lower-cased, read from the left: a whitespace
\* character counts only when it opens its run
ExpectedTitlePart(s) ==
    LET opens(k) == k = 1 \/ s[k - 1] \notin {" ", "\t"}
        kept == { k \in 1..Len(s) : s[k] \notin {" ", "\t"} \/ opens(k) }
        rank(k) == Cardinality({ m \in kept : m <= k })
        char(k) == IF s[k] \in {" ", "\t"} THEN "_"
                   ELSE IF s[k] = "A" THEN "a" ELSE s[k]
    IN [n \in 1..Cardinality(kept) |->
          char(CHOOSE k \in kept : rank(k) = n)]

ExpectedRawName(toolPrefix, title) ==
    toolPrefix \o <<"_">> \o ExpectedTitlePart(title)

\* C11: the registered name is the first 64 characters of prefix + "_" +
\* (title with each run of whitespace replaced by one underscore, then
\* lower-cased): the whole string when that has at most 64 characters, and
\* never longer than 64.
NameNormalized ==
    Registered("name") =>
        LET raw == ExpectedRawName(reg.client.toolPrefix, reg.params.title)
            name == reg.tool.name
        IN /\ Len(name) <= 64
           /\ Len(name) = (IF Len(raw) <= 64 THEN Len(raw) ELSE 64)
           /\ \A k \in 1..Len(name) : name[k] = raw[k]
           /\ Len(raw) <= 64 => name = raw

\* a name cut to 64 characters, from a title with a capital and a run of
\* whitespace
NameTruncatedWitness ==
    /\ Registered("name")
    /\ reg.params.title = <<"A", " ", "\t", "b">>
    /\ Len(reg.client.toolPrefix) = LongPrefixLength + 2
    /\ Len(reg.tool.name) = 64
    /\ reg.tool.name[64] = "a"

----------------------------------------------------------------------------
(* Properties of the registered annotations *)

HintOf(flag) ==
    CASE flag = "readOnly" -> "readOnlyHint"
      [] flag = "destructive" -> "destructiveHint"
      [] flag = "idempotent" -> "idempotentHint"
      [] flag = "openWorld" -> "openWorldHint"

DefaultOf(flag) == flag \in { "readOnly", "idempotent" }

\* C17: the registered annotations have exactly the fields title,
\* readOnlyHint, destructiveHint, idempotentHint and openWorldHint; title is
\* client.name + ": " + title, and each hint is the flag of the ToolParams
\* when that is set, to true or to false, and otherwise its default (readOnly
\* true, destructive false, idempotent true, openWorld false), whatever the
\* other flags are.
AnnotationsDerived ==
    Registered("annotations") =>
        LET annotations == reg.tool.annotations
        IN /\ DOMAIN annotations =
                { "title", "readOnlyHint", "destructiveHint",
                  "idempotentHint", "openWorldHint" }
           /\ annotations.title = <<"Test Product", ": ">> \o reg.params.title
           /\ \A flag \in { "readOnly", "destructive", "idempotent", "openWorld" } :
                annotations[HintOf(flag)] =
                    IF flag \in DOMAIN reg.params
                    THEN reg.params[flag]
                    ELSE DefaultOf(flag)

\* readOnly and destructive both set to true, idempotent set to false and
\* openWorld left unset
AnnotationsWitness ==
    /\ Registered("annotations")
    /\ reg.params = [title |-> <<"G","e","t">>, summary |-> <<"A test tool">>,
                     readOnly |-> TRUE, destructive |-> TRUE,
                     idempotent |-> FALSE]
    /\ reg.tool.annotations.readOnlyHint
    /\ reg.tool.annotations.destructiveHint
    /\ ~reg.tool.annotations.idempotentHint
    /\ ~reg.tool.annotations.openWorldHint

----------------------------------------------------------------------------
(* Properties of the schema helpers *)

\* the field names of a flattened schema and the type under a name; an
\* undefined result has no fields
FieldNames(shape) ==
    IF shape = UndefinedShape THEN {}
    ELSE { shape.entries[k][1] : k \in 1..Len(shape.entries) }
FieldType(shape, name) ==
    LET at == { k \in 1..Len(shape.entries) : shape.entries[k][1] = name }
    IN shape.entries[CHOOSE k \in at : TRUE][2]

\* C12: schemaToRawShape returns the shape of an object schema as it is; for
\* an intersection it returns a mapping with exactly the field names of the
\* flattened left and right sides, each name once, carrying the right side's
\* type where the right side has the name and the left side's otherwise,
\* also when the sides are themselves intersections; for every other kind
\* and for no schema at all it returns undefined.
FlattenIsRightBiasedUnion ==
    reg.pc = "Shape" =>
        LET schema == reg.schema
            shape == reg.shape
        IN IF schema = AbsentSchema THEN shape = UndefinedShape
           ELSE IF schema.kind = "object" THEN shape = [entries |-> schema.shape]
           ELSE IF schema.kind = "intersection"
                THEN LET left == schemaToRawShape(schema.left)
                         right == schemaToRawShape(schema.right)
                     IN /\ shape # UndefinedShape
                        /\ FieldNames(shape) = FieldNames(left) \cup FieldNames(right)
                        /\ Cardinality(FieldNames(shape)) = Len(shape.entries)
                        /\ \A name \in FieldNames(shape) :
                              FieldType(shape, name) =
                                  IF name \in FieldNames(right)
                                  THEN FieldType(right, name)
                                  ELSE FieldType(left, name)
                ELSE shape = UndefinedShape

\* a nested intersection in which the right side overrides the type of b
FlattenWitness ==
    /\ reg.pc = "Shape"
    /\ reg.schema = Intersection(Intersection(ObjectA, ObjectB), ObjectA)
    /\ reg.shape = [entries |-> << <<"a", [kind |-> "string"]>>,
                                   <<"b", [kind |-> "number"]>>,
                                   <<"c", [kind |-> "string"]>> >>]

IsWrapper(node) == node.kind \in { "optional", "default" }

\* C13: getReadableTypeName gives every schema a label: a wrapped schema gets
\* the label of what it wraps; string, number, boolean, array, object, enum,
\* literal and union get their own name; a record gets "record<", the label
\* of its key type, ", ", the label of its value type and ">"; any and every
\* other kind, an intersection included, get "any".
ReadableTypeNameTotal ==
    reg.pc = "TypeName" =>
        LET node == reg.schema
            label == reg.typeName
        IN /\ Len(label) >= 1
           /\ IF IsWrapper(node) THEN label = getReadableTypeName(node.inner)
              ELSE IF node.kind = "record"
                   THEN label = <<"record<">> \o getReadableTypeName(node.keyType)
                                  \o <<", ">> \o getReadableTypeName(node.valueType)
                                  \o <<">">>
              ELSE IF node.kind = "string" THEN label = <<"string">>
              ELSE IF node.kind = "number" THEN label = <<"number">>
              ELSE IF node.kind = "boolean" THEN label = <<"boolean">>
              ELSE IF node.kind = "array" THEN label = <<"array">>
              ELSE IF node.kind = "object" THEN label = <<"object">>
              ELSE IF node.kind = "enum" THEN label = <<"enum">>
              ELSE IF node.kind = "literal" THEN label = <<"literal">>
              ELSE IF node.kind = "union" THEN label = <<"union">>
              ELSE label = <<"any">>

\* a record under a default and an optional wrapper
ReadableTypeNameWitness ==
    /\ reg.pc = "TypeName"
    /\ reg.schema = [kind |-> "default",
                      defaultValue |-> [json |-> "number", number |-> 1],
                      inner |-> [kind |-> "optional",
                                 inner |-> [kind |-> "record",
                                            keyType |-> [kind |-> "string"],
                                            valueType |-> [kind |-> "number"]]]]
    /\ reg.typeName = <<"record<", "string", ", ", "number", ">">>

RECURSIVE WrapperChain(_)
\* a field and what it wraps, from the field down to the first type that is
\* neither optional nor default
WrapperChain(node) ==
    IF IsWrapper(node) THEN <<node>> \o WrapperChain(node.inner) ELSE <<node>>

Fragments(line) == { line[k] : k \in 1..Len(line) }
EndsWith(line, suffix) ==
    /\ Len(line) >= Len(suffix)
    /\ SubSeq(line, Len(line) - Len(suffix) + 1, Len(line)) = suffix

\* the JSON text of the default values
ExpectedDefaultText(value) ==
    IF value = [json |-> "number", number |-> 1] THEN <<"1">>
    ELSE IF value = [json |-> "boolean", boolean |-> FALSE] THEN <<"false">>
    ELSE <<"\"", "", "\"">>

\* C16: the line of a field carries " *required*" exactly when the field is
\* under no optional and no default wrapper; it ends with " (default: ", the
\* JSON text of the innermost default's value and ")" when some wrapper is a
\* default, and carries no default otherwise; and it starts with the key and
\* the type name of the first type under the wrappers.
ParameterLineReflectsWrappers ==
    reg.pc = "Line" =>
        LET chain == WrapperChain(reg.schema)
            defaults == { k \in 1..Len(chain) : chain[k].kind = "default" }
            innermost == CHOOSE k \in defaults : \A other \in defaults : other <= k
            label == getReadableTypeName(chain[Len(chain)])
        IN /\ (" *required*" \in Fragments(reg.line)) <=> (Len(chain) = 1)
           /\ (" (default: " \in Fragments(reg.line)) <=> (defaults # {})
           /\ defaults # {} =>
                 EndsWith(reg.line,
                          <<" (default: ">>
                            \o ExpectedDefaultText(chain[innermost].defaultValue)
                            \o <<")">>)
           /\ SubSeq(reg.line, 1, 4 + Len(label)) = <<"- ", "p", " (">> \o label \o <<")">>

\* a boolean under two defaults: the line shows the inner, falsy, value
ParameterLineWitness ==
    /\ reg.pc = "Line"
    /\ reg.schema = [kind |-> "default",
                      defaultValue |-> [json |-> "number", number |-> 1],
                      inner |-> [kind |-> "default",
                                 defaultValue |-> [json |-> "boolean", boolean |-> FALSE],
                                 inner |-> [kind |-> "boolean"]]]
    /\ reg.line = <<"- ", "p", " (", "boolean", ")", " (default: ", "false", ")">>

----------------------------------------------------------------------------
(* Properties of the compiled description *)

\* the headers of the sections, in the order the sections are to appear
SectionHeaders ==
    { "**Parameters:**", "**Output Description:**", "**Use Cases:**",
      "**Examples:**", "**Hints:**" }

IsSet(params, key) == key \in DOMAIN params
NonEmpty(params, key) == IsSet(params, key) /\ Len(params[key]) >= 1
NonEmptyString(params, key) == IsSet(params, key) /\ params[key] # ""

\* a section: nothing when its source is absent or empty, else a blank line
\* and its text
Section(present, text) == IF present THEN <<"\n\n">> \o text ELSE <<>>

\* the sections of params, summary first
ExpectedSections(params) ==
    << params.summary,
       Section(NonEmpty(params, "parameters"),
               <<"**Parameters:**", "\n">>
                 \o parametersText(ListOf(params, "parameters"))),
       Section(IsSet(params, "inputSchema") /\ params.inputSchema.kind = "object",
               <<"**Parameters:**", "\n">>
                 \o schemaParametersText(
                        IF IsSet(params, "inputSchema")
                           /\ params.inputSchema.kind = "object"
                        THEN params.inputSchema.shape ELSE <<>>)),
       Section(NonEmptyString(params, "outputDescription"),
               <<"**Output Description:**", " ">>
                 \o (IF IsSet(params, "outputDescription")
                     THEN <<params.outputDescription>> ELSE <<>>)),
       Section(NonEmpty(params, "useCases"),
               <<"**Use Cases:**", " ">> \o numberedText(ListOf(params, "useCases"))),
       Section(NonEmpty(params, "examples"),
               <<"**Examples:**", "\n">> \o examplesText(ListOf(params, "examples"))),
       Section(NonEmpty(params, "hints"),
               <<"**Hints:**", " ">> \o numberedText(ListOf(params, "hints"))) >>

Concatenation(sections) ==
    sections[1] \o sections[2] \o sections[3] \o sections[4]
      \o sections[5] \o sections[6] \o sections[7]

IsBlank(fragment) == fragment \in { "", " ", "\t", "\n", "\n\n" }

\* text without the whitespace before its first and after its last fragment
\* that is not whitespace
Trimmed(text) ==
    LET solid == { k \in 1..Len(text) : ~IsBlank(text[k]) }
    IN IF solid = {} THEN <<>>
       ELSE SubSeq(text,
                   CHOOSE k \in solid : \A other \in solid : k <= other,
                   CHOOSE k \in solid : \A other \in solid : other <= k)

OnlyTitleAndSummary(params) == DOMAIN params = { "title", "summary" }

Occurs(part, whole) ==
    \E k \in 0..(Len(whole) - Len(part)) : SubSeq(whole, k + 1, k + Len(part)) = part

Count(fragment, text) == Cardinality({ k \in 1..Len(text) : text[k] = fragment })

\* C15: whenever inputSchema flattens to a shape, the description has a
\* "**Parameters:**" section of its own for it, with the lines of the fields
\* of the flattened shape in declaration order; so every field inputSchema
\* adds to the registered input schema has a line in the description.
SchemaFieldsDescribed ==
    Registered("description") /\ IsSet(reg.params, "inputSchema") =>
        LET shape == schemaToRawShape(reg.params.inputSchema)
        IN shape # UndefinedShape =>
             /\ Count("**Parameters:**", reg.tool.description)
                  = 1 + (IF NonEmpty(reg.params, "parameters") THEN 1 ELSE 0)
             /\ Occurs(schemaParametersText(shape.entries), reg.tool.description)
             /\ \A k \in 1..Len(shape.entries) :
                   /\ shape.entries[k][1] \in FieldNames(reg.tool.inputSchema)
                   /\ \E at \in 1..(Len(reg.tool.description) - 1) :
                         /\ reg.tool.description[at] = "- "
                         /\ reg.tool.description[at + 1] = shape.entries[k][1]

----------------------------------------------------------------------------
(* Order of the steps of an invocation *)

Positions(step, steps) == { k \in 1..Len(steps) : steps[k] = step }

\* the steps an invocation has taken are in order: the configuration query
\* first, the callback next and once, only when the query returned true;
\* validation and normalization only after the callback resolved to a result
StepsInOrder(call) ==
    /\ call.steps[1] = "isConfigured"
    /\ Positions("isConfigured", call.steps) = { 1 }
    /\ Positions("cb", call.steps) = (IF call.isConfigured THEN { 2 } ELSE {})
    /\ call.cbCalls = Cardinality(Positions("cb", call.steps))
    /\ \A k \in Positions("validateCallbackResult", call.steps) :
          /\ k = 3
          /\ call.pc = "Done" /\ call.cb.kind = "resolved"
    /\ \A k \in Positions("addStructuredContentAsText", call.steps) :
          /\ k = 4
          /\ call.steps[3] = "validateCallbackResult"
          /\ call.pc = "Done" /\ call.cb.kind = "resolved"

\* an invocation starts with the answer isConfigured() gives at that moment
QueriedAtCallTime ==
    \A i \in Calls :
        calls[i].pc = "Idle" /\ calls'[i].pc # "Idle" =>
            calls'[i].isConfigured = configured

\* C18: in every invocation the configuration is queried first, when the
\* call is made; the callback is called at most once, after the query
\* returned true and never after it returned false; validation and then
\* normalization run only after the callback has returned a result.
WrapperStepOrder ==
    /\ [](\A i \in Calls : calls[i].pc # "Idle" => StepsInOrder(calls[i]))
    /\ [][QueriedAtCallTime]_vars

\* one invocation ran all four steps, and one made after the client lost its
\* configuration stopped at the query
WrapperStepOrderWitness ==
    /\ calls[1].pc = "Done"
    /\ calls[1].steps = <<"isConfigured", "cb", "validateCallbackResult",
                          "addStructuredContentAsText">>
    /\ calls[2].pc = "Done"
    /\ ~calls[2].isConfigured
    /\ calls[2].cbCalls = 0
    /\ "cb" \notin { calls[2].steps[k] : k \in 1..Len(calls[2].steps) }

============================================================================
